---- MODULE Spec2Model ----
(***************************************************************************)
(* DiagnosisThrottler (diagnosis_throttler.py): the policy that decides    *)
(* when an accumulating medical narrative is forwarded to the diagnosis    *)
(* service.  Texts are sequences of characters, the clock is counted in    *)
(* whole seconds.                                                          *)
(***************************************************************************)
EXTENDS Integers, Sequences, FiniteSets, TLC

(* ---------------- bounds of the model ---------------- *)
MaxLen == 3
MaxInterval == 2
MaxTicks == 3
MaxRaceTicks == 1
MaxGrowth == 3
MaxCalls == 3

(* ---------------- texts ---------------- *)
Letter == "a"
Space == " "
Chars == {Letter, Space}

Texts == UNION {[1..n -> Chars] : n \in 0..MaxLen}

\* the characters str.split() and str.strip() take for whitespace (those
\* str.isspace() holds for); a character that cannot be written in a string
\* of this module is named by its code point
Whitespace ==
    {" ", "\t", "\n", "\r", "\f",
     "U+000B", "U+001C", "U+001D", "U+001E", "U+001F", "U+0085", "U+00A0",
     "U+1680", "U+2000", "U+2001", "U+2002", "U+2003", "U+2004", "U+2005",
     "U+2006", "U+2007", "U+2008", "U+2009", "U+200A", "U+2028", "U+2029",
     "U+202F", "U+205F", "U+3000"}

\* str.split() with no separator: the maximal runs of non-whitespace
\* characters, in order; leading, trailing and repeated whitespace yield no
\* empty token.
RECURSIVE SplitFrom(_, _, _)
SplitFrom(s, i, word) ==
    IF i > Len(s)
    THEN IF word = <<>> THEN <<>> ELSE <<word>>
    ELSE IF s[i] \in Whitespace
         THEN IF word = <<>>
              THEN SplitFrom(s, i + 1, <<>>)
              ELSE <<word>> \o SplitFrom(s, i + 1, <<>>)
         ELSE SplitFrom(s, i + 1, Append(word, s[i]))

split(s) == SplitFrom(s, 1, <<>>)

\* variant: split(" "), which keeps the empty tokens between and around
\* single spaces
word_count_single_space(s) ==
    IF s = <<>> THEN 1
    ELSE 1 + Cardinality({i \in 1..Len(s) : s[i] = " "})

\* len(narrative.split())
word_count(s) == Len(split(s))

\* Python's `section in narrative` on strings: substring containment.
Contains(section, text) ==
    \E i \in 0..(Len(text) - Len(section)) :
        SubSeq(text, i + 1, i + Len(section)) = section

(* ---------------- configurations ---------------- *)
MarkerAA == <<"a", "a">>
MarkerASpace == <<"a", " ">>
TriggerConfigs == { <<>>, <<MarkerASpace, MarkerAA>> }

Intervals == 0..MaxInterval
\* thresholds up to the most words a text of the model can have
MaxWords == (MaxLen + 1) \div 2
Thresholds == 1..MaxWords

\* the first clock reading of a session: time.time() is seconds since 1970,
\* far beyond any configured interval
Epoch == MaxInterval + 1
MaxTime == Epoch + MaxTicks

None == -1

VARIABLES
    now,                    \* the reading time.time() returns
    minimum_interval, maximum_interval, word_count_threshold, trigger_sections,
    last_sent_time, last_sent_narrative, last_sent_word_count,
    op,                     \* the throttler method that ran in the last step
    narrative,              \* the text the caller holds (argument of the call)
    result,                 \* the decision the caller holds, FALSE when none
    pc,                     \* the caller's position in evaluate-then-mark
    approved_at,            \* clock reading of the latest approval
    before,                 \* the state a mark_sent step started from, None
                            \* after any other step
    source,                 \* what is found at config_path
    constructed,            \* how DiagnosisThrottler(config_path) ended
    tasks,                  \* the tasks (callers, handlers) sharing the throttler
    caught,                 \* the exception that left process_input, or that
                            \* the handler's except clause logged, in the last
                            \* step; "none" when there was none
    entry,                  \* how far entrypoint of app.py has got
    medical_narrative,      \* the narrative the medical listener holds
    previous,               \* the text held before the current one
    summary,                \* how the summarizer call of process_input ended
    returned,               \* what process_input returned
    call_list,              \* the entries make_bulk_calls was given
    idx,                    \* the entry the loop of make_bulk_calls is at
    successful_calls, failed_calls,
    at,                     \* the position inside make_bulk_calls / make_call
    log                     \* the API requests and sleeps made so far

config == <<minimum_interval, maximum_interval, word_count_threshold, trigger_sections>>
state == <<last_sent_time, last_sent_narrative, last_sent_word_count>>
caller == <<pc, approved_at>>
history == <<before>>
construction == <<source, constructed>>
handlers == <<tasks, caught, entry>>
listener == <<medical_narrative, previous, summary, returned>>
outbound == <<call_list, idx, successful_calls, failed_calls, at, log>>
vars == <<now, config, state, op, narrative, result, caller, history,
          construction, handlers, listener, outbound>>

(* ---------------- should_send_update ---------------- *)
time_since_last == now - last_sent_time

words_added(n) == word_count(n) - last_sent_word_count

\* variant: only the first configured section is looked at
new_trigger_section_first_only(n) ==
    /\ Len(trigger_sections) > 0
    /\ Contains(trigger_sections[1], n)
    /\ ~Contains(trigger_sections[1], last_sent_narrative)

\* variant: a section forces a send whenever the narrative contains it
new_trigger_section_present(n) ==
    \E k \in 1..Len(trigger_sections) : Contains(trigger_sections[k], n)

\* the loop over trigger_sections: some section is in the narrative and not
\* in the last sent one
new_trigger_section(n) ==
    \E k \in 1..Len(trigger_sections) :
        /\ Contains(trigger_sections[k], n)
        /\ ~Contains(trigger_sections[k], last_sent_narrative)

\* variant: the minimum interval is checked after the forcing rules
should_send_update_floor_last(n) ==
    IF n = last_sent_narrative THEN FALSE
    ELSE IF time_since_last >= maximum_interval THEN TRUE
    ELSE IF words_added(n) >= word_count_threshold THEN TRUE
    ELSE IF new_trigger_section(n) THEN TRUE
    ELSE IF time_since_last < minimum_interval THEN FALSE
    ELSE FALSE

\* variant: the maximum interval must be exceeded, not reached
should_send_update_ceiling_strict(n) ==
    IF time_since_last < minimum_interval THEN FALSE
    ELSE IF n = last_sent_narrative THEN FALSE
    ELSE IF time_since_last > maximum_interval THEN TRUE
    ELSE IF words_added(n) >= word_count_threshold THEN TRUE
    ELSE IF new_trigger_section(n) THEN TRUE
    ELSE FALSE

\* variant: the maximum interval is checked before the unchanged narrative
should_send_update_ceiling_first(n) ==
    IF time_since_last < minimum_interval THEN FALSE
    ELSE IF time_since_last >= maximum_interval THEN TRUE
    ELSE IF n = last_sent_narrative THEN FALSE
    ELSE IF words_added(n) >= word_count_threshold THEN TRUE
    ELSE IF new_trigger_section(n) THEN TRUE
    ELSE FALSE

\* variant: more than word_count_threshold words must be added
should_send_update_words_strict(n) ==
    IF time_since_last < minimum_interval THEN FALSE
    ELSE IF n = last_sent_narrative THEN FALSE
    ELSE IF time_since_last >= maximum_interval THEN TRUE
    ELSE IF words_added(n) > word_count_threshold THEN TRUE
    ELSE IF new_trigger_section(n) THEN TRUE
    ELSE FALSE

\* variant: no forced send after the maximum interval
should_send_update_no_ceiling(n) ==
    IF time_since_last < minimum_interval THEN FALSE
    ELSE IF n = last_sent_narrative THEN FALSE
    ELSE IF words_added(n) >= word_count_threshold THEN TRUE
    ELSE IF new_trigger_section(n) THEN TRUE
    ELSE FALSE

\* variant: a narrative without any word is never sent
should_send_update_skips_blank(n) ==
    IF word_count(n) = 0 THEN FALSE
    ELSE IF time_since_last < minimum_interval THEN FALSE
    ELSE IF n = last_sent_narrative THEN FALSE
    ELSE IF time_since_last >= maximum_interval THEN TRUE
    ELSE IF words_added(n) >= word_count_threshold THEN TRUE
    ELSE IF new_trigger_section(n) THEN TRUE
    ELSE FALSE

\* variant: "unchanged" compares the words, not the characters
should_send_update_compares_words(n) ==
    IF time_since_last < minimum_interval THEN FALSE
    ELSE IF split(n) = split(last_sent_narrative) THEN FALSE
    ELSE IF time_since_last >= maximum_interval THEN TRUE
    ELSE IF words_added(n) >= word_count_threshold THEN TRUE
    ELSE IF new_trigger_section(n) THEN TRUE
    ELSE FALSE

should_send_update(n) ==
    IF time_since_last < minimum_interval THEN FALSE
    ELSE IF n = last_sent_narrative THEN FALSE
    ELSE IF time_since_last >= maximum_interval THEN TRUE
    ELSE IF words_added(n) >= word_count_threshold THEN TRUE
    ELSE IF new_trigger_section(n) THEN TRUE
    ELSE FALSE

\* variant: the call keeps the word count it computed
ShouldSendUpdate_caching(n) ==
    /\ op' = "should_send_update"
    /\ narrative' = n
    /\ result' = should_send_update(n)
    /\ last_sent_word_count' = word_count(n)
    /\ UNCHANGED <<now, config, last_sent_time, last_sent_narrative>>

\* variant: an approval is recorded as a send at once
ShouldSendUpdate_marks(n) ==
    /\ op' = "should_send_update"
    /\ narrative' = n
    /\ result' = should_send_update(n)
    /\ IF should_send_update(n)
       THEN /\ last_sent_time' = now
            /\ last_sent_narrative' = n
            /\ last_sent_word_count' = word_count(n)
       ELSE UNCHANGED state
    /\ UNCHANGED <<now, config>>

\* variant: a rejected candidate becomes the baseline of the word count
ShouldSendUpdate_rebasing(n) ==
    /\ op' = "should_send_update"
    /\ narrative' = n
    /\ result' = should_send_update(n)
    /\ last_sent_word_count' = IF should_send_update(n)
                               THEN last_sent_word_count
                               ELSE word_count(n)
    /\ UNCHANGED <<now, config, last_sent_time, last_sent_narrative>>

\* a call of should_send_update(n): it reads the clock, the state and the
\* configuration and assigns none of them
ShouldSendUpdate(n) ==
    /\ op' = "should_send_update"
    /\ narrative' = n
    /\ result' = should_send_update(n)
    /\ UNCHANGED <<now, config, state>>

(* ---------------- mark_sent ---------------- *)
\* variant: the time of the send is not recorded
mark_sent_keeps_time(n) ==
    /\ last_sent_narrative' = n
    /\ last_sent_word_count' = word_count(n)
    /\ op' = "mark_sent"
    /\ narrative' = n
    /\ result' = FALSE
    /\ UNCHANGED <<now, config, last_sent_time>>

\* variant: a send inside the minimum interval is not recorded
mark_sent_unless_too_soon(n) ==
    /\ IF time_since_last < minimum_interval
       THEN UNCHANGED state
       ELSE /\ last_sent_time' = now
            /\ last_sent_narrative' = n
            /\ last_sent_word_count' = word_count(n)
    /\ op' = "mark_sent"
    /\ narrative' = n
    /\ result' = FALSE
    /\ UNCHANGED <<now, config>>

\* variant: the stored count is taken with split(" ")
mark_sent_single_space_count(n) ==
    /\ last_sent_time' = now
    /\ last_sent_narrative' = n
    /\ last_sent_word_count' = word_count_single_space(n)
    /\ op' = "mark_sent"
    /\ narrative' = n
    /\ result' = FALSE
    /\ UNCHANGED <<now, config>>

\* variant: the time since the last send is stored, not the time
mark_sent_stores_elapsed(n) ==
    /\ last_sent_time' = now - last_sent_time
    /\ last_sent_narrative' = n
    /\ last_sent_word_count' = word_count(n)
    /\ op' = "mark_sent"
    /\ narrative' = n
    /\ result' = FALSE
    /\ UNCHANGED <<now, config>>

\* variant: the word count is added up over the sends
mark_sent_accumulates(n) ==
    /\ last_sent_time' = now
    /\ last_sent_narrative' = n
    /\ last_sent_word_count' = last_sent_word_count + word_count(n)
    /\ op' = "mark_sent"
    /\ narrative' = n
    /\ result' = FALSE
    /\ UNCHANGED <<now, config>>

\* variant: marking the empty text sent puts the throttler back to never sent
mark_sent_resets_on_empty(n) ==
    /\ last_sent_time' = IF n = <<>> THEN 0 ELSE now
    /\ last_sent_narrative' = n
    /\ last_sent_word_count' = word_count(n)
    /\ op' = "mark_sent"
    /\ narrative' = n
    /\ result' = FALSE
    /\ UNCHANGED <<now, config>>

\* a call of mark_sent(n); it returns nothing
mark_sent(n) ==
    /\ last_sent_time' = now
    /\ last_sent_narrative' = n
    /\ last_sent_word_count' = word_count(n)
    /\ op' = "mark_sent"
    /\ narrative' = n
    /\ result' = FALSE
    /\ UNCHANGED <<now, config>>

(* ---------------- the clock ---------------- *)
\* time.time() between two calls: the reading never goes back
Tick ==
    /\ now < MaxTime
    /\ now' = now + 1
    /\ op' = "none"
    /\ UNCHANGED <<config, state, narrative, result>>

(* ---------------- the configuration source ---------------- *)
\* the defaults of __init__
DefaultMinimumInterval == 15
DefaultMaximumInterval == 60
DefaultWordCountThreshold == 20
DefaultTriggerSections == <<>>

\* a key of a mapping: the set of the values it is given, empty when the key
\* is absent
Absent == {}
Given(v) == {v}

\* dict.get(key, default)
get(setting, default) ==
    IF setting = Absent THEN default ELSE CHOOSE v \in setting : TRUE

\* the diagnosis_throttling section when it is a mapping: any subset of the
\* four keys
Settings ==
    [minimum_interval_seconds : {Absent} \cup {Given(v) : v \in Intervals},
     maximum_interval_seconds : {Absent} \cup {Given(v) : v \in Intervals},
     word_count_threshold : {Absent} \cup {Given(v) : v \in Thresholds},
     trigger_sections : {Absent} \cup {Given(v) : v \in TriggerConfigs}]

NoSettings ==
    [minimum_interval_seconds |-> Absent,
     maximum_interval_seconds |-> Absent,
     word_count_threshold |-> Absent,
     trigger_sections |-> Absent]

\* what open() and yaml.safe_load() can meet at config_path.
\*   file:     "missing" and "unreadable" make open() raise, "unparsable"
\*             makes yaml.safe_load() raise
\*   document: "null" is the empty document (safe_load gives None),
\*             "empty_list" a top level that is no mapping and falsy,
\*             "list" a top level that is no mapping and truthy
\*   section:  the value under diagnosis_throttling: "absent" (no such key),
\*             "null", "list" (anything that is no mapping) or "mapping"
UnloadableFiles == {"missing", "unreadable", "unparsable"}
Falsy == {"null", "empty_list"}
NotMappings == {"null", "empty_list", "list"}

Sources ==
    {[file |-> f, document |-> "none", section |-> "none",
      settings |-> NoSettings] : f \in UnloadableFiles}
    \cup
    {[file |-> "ok", document |-> d, section |-> "none",
      settings |-> NoSettings] : d \in NotMappings}
    \cup
    {[file |-> "ok", document |-> "mapping", section |-> x,
      settings |-> NoSettings] : x \in {"absent", "null", "list"}}
    \cup
    {[file |-> "ok", document |-> "mapping", section |-> "mapping",
      settings |-> k] : k \in Settings}

\* the value {} of Python
EmptyMapping ==
    [document |-> "mapping", section |-> "absent", settings |-> NoSettings]

\* _load_config(config_path): the parsed document, {} when it is falsy and
\* {} when opening or parsing raised
load_config(src) ==
    IF src.file # "ok" THEN EmptyMapping
    ELSE IF src.document \in Falsy THEN EmptyMapping
    ELSE [document |-> src.document, section |-> src.section,
          settings |-> src.settings]

\* the source a throttler with this configuration was constructed from
SourceOf(min, max, threshold, sections) ==
    [file |-> "ok", document |-> "mapping", section |-> "mapping",
     settings |-> [minimum_interval_seconds |-> Given(min),
                   maximum_interval_seconds |-> Given(max),
                   word_count_threshold |-> Given(threshold),
                   trigger_sections |-> Given(sections)]]

(* ---------------- the medical listener: process_input ---------------- *)
\* no summarizer call has ended yet
NoSummary ==
    [kind |-> "none", content |-> <<>>, message |-> <<>>, logged |-> TRUE]

(* ---------------- the conversation handlers ---------------- *)
\* the tasks that can run at the same time
Tasks == {1, 2}

IdleTask == [pc |-> "idle", text |-> <<>>, called_at |-> None]
NoTasks == [t \in Tasks |-> IdleTask]

(* ---------------- construction ---------------- *)
\* variant: the section's values are used only when it gives all four keys,
\* otherwise every value is the default
Construct_all_or_nothing ==
    /\ constructed = "pending"
    /\ LET loaded == load_config(source)
           given == IF loaded.section = "absent" THEN NoSettings
                    ELSE loaded.settings
           throttle_config ==
               IF \/ given.minimum_interval_seconds = Absent
                  \/ given.maximum_interval_seconds = Absent
                  \/ given.word_count_threshold = Absent
                  \/ given.trigger_sections = Absent
               THEN NoSettings
               ELSE given
       IN  /\ last_sent_time' = 0
           /\ last_sent_narrative' = <<>>
           /\ last_sent_word_count' = 0
           /\ IF \/ loaded.document # "mapping"
                 \/ loaded.section \notin {"absent", "mapping"}
              THEN /\ constructed' = "raised"
                   /\ UNCHANGED config
              ELSE /\ constructed' = "ok"
                   /\ minimum_interval' =
                        get(throttle_config.minimum_interval_seconds,
                            DefaultMinimumInterval)
                   /\ maximum_interval' =
                        get(throttle_config.maximum_interval_seconds,
                            DefaultMaximumInterval)
                   /\ word_count_threshold' =
                        get(throttle_config.word_count_threshold,
                            DefaultWordCountThreshold)
                   /\ trigger_sections' =
                        get(throttle_config.trigger_sections,
                            DefaultTriggerSections)
    /\ UNCHANGED <<now, op, narrative, result, caller, history, source,
                   handlers, listener, outbound>>

\* DiagnosisThrottler(config_path): self.config.get and throttle_config.get
\* are attribute lookups on whatever was loaded, and only a mapping has get
Construct ==
    /\ constructed = "pending"
    /\ LET loaded == load_config(source)
           throttle_config ==
               IF loaded.section = "absent" THEN NoSettings
               ELSE loaded.settings
       IN  /\ last_sent_time' = 0
           /\ last_sent_narrative' = <<>>
           /\ last_sent_word_count' = 0
           /\ IF \/ loaded.document # "mapping"
                 \/ loaded.section \notin {"absent", "mapping"}
              THEN /\ constructed' = "raised"
                   /\ UNCHANGED config
              ELSE /\ constructed' = "ok"
                   /\ minimum_interval' =
                        get(throttle_config.minimum_interval_seconds,
                            DefaultMinimumInterval)
                   /\ maximum_interval' =
                        get(throttle_config.maximum_interval_seconds,
                            DefaultMaximumInterval)
                   /\ word_count_threshold' =
                        get(throttle_config.word_count_threshold,
                            DefaultWordCountThreshold)
                   /\ trigger_sections' =
                        get(throttle_config.trigger_sections,
                            DefaultTriggerSections)
    /\ UNCHANGED <<now, op, narrative, result, caller, history, source,
                   handlers, listener, outbound>>

\* the state after construction
Init ==
    /\ now = Epoch
    /\ minimum_interval \in Intervals
    /\ maximum_interval \in Intervals
    /\ word_count_threshold \in Thresholds
    /\ trigger_sections \in TriggerConfigs
    /\ last_sent_time = 0
    /\ last_sent_narrative = <<>>
    /\ last_sent_word_count = 0
    /\ op = "none"
    /\ narrative = <<>>
    /\ result = FALSE
    /\ pc = "idle"
    /\ approved_at = None
    /\ before = None
    /\ source = SourceOf(minimum_interval, maximum_interval,
                         word_count_threshold, trigger_sections)
    /\ constructed = "ok"
    /\ tasks = NoTasks
    /\ caught = "none"
    /\ entry = "start"
    /\ medical_narrative = <<>>
    /\ previous = <<>>
    /\ summary = NoSummary
    /\ returned = <<>>
    /\ call_list = <<>>
    /\ idx = 0
    /\ successful_calls = 0
    /\ failed_calls = 0
    /\ at = "start"
    /\ log = <<>>

(* ---------------- any caller: the two methods in any order ---------------- *)
\* no call is being looked at
Returned == op = "none"

AnyShouldSendUpdate ==
    /\ Returned
    /\ \E n \in Texts : ShouldSendUpdate(n)
    /\ before' = None
    /\ UNCHANGED <<caller, construction, listener, outbound, handlers>>

\* the caller takes what the call gave and drops the text it passed
Return ==
    /\ op # "none"
    /\ op' = "none"
    /\ narrative' = <<>>
    /\ result' = FALSE
    /\ before' = None
    /\ UNCHANGED <<now, config, state, caller, construction, listener, outbound, handlers>>

AnyMarkSent ==
    /\ Returned
    /\ \E n \in Texts : mark_sent(n)
    /\ before' = state
    /\ UNCHANGED <<caller, construction, listener, outbound, handlers>>

AnyTick ==
    /\ Returned
    /\ Tick
    /\ before' = None
    /\ UNCHANGED <<caller, construction, listener, outbound, handlers>>

Next ==
    \/ AnyTick
    \/ AnyShouldSendUpdate
    \/ Return
    \/ AnyMarkSent

Spec == Init /\ [][Next]_vars

(* ---------------- a serialized caller: evaluate, then mark ---------------- *)
\* A caller that keeps to the discipline the throttler is written for: one
\* call at a time, mark_sent(c) exactly after should_send_update(c) returned
\* true and never otherwise.  (The handler of app.py is not such a caller;
\* it is modelled further down.)
\* the caller passes a candidate to should_send_update and keeps the answer
SerialEvaluate ==
    /\ pc = "idle"
    /\ \E n \in Texts :
        /\ ShouldSendUpdate(n)
        /\ pc' = IF should_send_update(n) THEN "approved" ELSE "rejected"
        /\ approved_at' = IF should_send_update(n) THEN now ELSE approved_at
    /\ UNCHANGED <<history, construction, listener, outbound, handlers>>

\* the answer was false: the caller drops the candidate
SerialDiscard ==
    /\ pc = "rejected"
    /\ pc' = "idle"
    /\ op' = "none"
    /\ narrative' = <<>>
    /\ result' = FALSE
    /\ UNCHANGED <<now, config, state, approved_at, history, construction, listener, outbound,
                   handlers>>

\* the answer was true: the caller calls mark_sent with the very candidate
\* that was evaluated (time may have passed meanwhile)
SerialMark ==
    /\ pc = "approved"
    /\ mark_sent(narrative)
    /\ pc' = "idle"
    /\ UNCHANGED <<approved_at, history, construction, listener, outbound, handlers>>

SerialTick ==
    /\ pc \in {"idle", "approved"}
    /\ Tick
    /\ UNCHANGED <<caller, history, construction, listener, outbound, handlers>>

NextSerial ==
    \/ SerialTick
    \/ SerialEvaluate
    \/ SerialDiscard
    \/ SerialMark

SpecSerial == Init /\ [][NextSerial]_vars

(* ---------------- a caller whose narrative stays ahead of the last send ---------------- *)
\* the narrative offered differs from what was sent last
OfferDistinct ==
    /\ pc = "idle"
    /\ \E n \in Texts \ {last_sent_narrative} :
        /\ ShouldSendUpdate(n)
        /\ pc' = IF should_send_update(n) THEN "approved" ELSE "rejected"
    /\ UNCHANGED <<approved_at, history, construction, listener, outbound, handlers>>

OfferingTick == Tick /\ UNCHANGED <<caller, history, construction, listener, outbound, handlers>>

NextOffering ==
    \/ OfferingTick
    \/ OfferDistinct
    \/ SerialDiscard
    \/ SerialMark

\* the clock advances and the caller keeps calling: a narrative that
\* differs from the last sent one is offered again and again
SpecOffering ==
    /\ Init /\ [][NextOffering]_vars
    /\ WF_vars(OfferingTick)
    /\ WF_vars(OfferDistinct \/ SerialDiscard)

(* ---------------- construction from any configuration source ---------------- *)
\* before the constructor runs: nothing is configured yet, and the clock is
\* beyond the default intervals as well
InitConfig ==
    /\ source \in Sources
    /\ constructed = "pending"
    /\ now = Epoch + DefaultMaximumInterval
    /\ minimum_interval = None
    /\ maximum_interval = None
    /\ word_count_threshold = None
    /\ trigger_sections = <<>>
    /\ last_sent_time = 0
    /\ last_sent_narrative = <<>>
    /\ last_sent_word_count = 0
    /\ op = "none"
    /\ narrative = <<>>
    /\ result = FALSE
    /\ pc = "idle"
    /\ approved_at = None
    /\ before = None
    /\ tasks = NoTasks
    /\ caught = "none"
    /\ entry = "start"
    /\ medical_narrative = <<>>
    /\ previous = <<>>
    /\ summary = NoSummary
    /\ returned = <<>>
    /\ call_list = <<>>
    /\ idx = 0
    /\ successful_calls = 0
    /\ failed_calls = 0
    /\ at = "start"
    /\ log = <<>>

\* the constructor returned a throttler
Usable == constructed = "ok"

ConfigShouldSendUpdate == Usable /\ AnyShouldSendUpdate
ConfigMarkSent == Usable /\ AnyMarkSent
ConfigReturn == Usable /\ Return

NextConfig ==
    \/ Construct
    \/ ConfigShouldSendUpdate
    \/ ConfigMarkSent
    \/ ConfigReturn

SpecConfig == InitConfig /\ [][NextConfig]_vars

(* ---------------- callers sharing one throttler without serialization ---------------- *)
\* Callers that use the two methods the way the throttler's data flow has
\* it (evaluate; on true make the downstream call, then mark_sent), but
\* each for itself: between a caller's approval and its mark_sent the
\* other caller may run.
\* the caller was approved and is making its downstream call
InFlight(t) == tasks[t].pc = "sending"

Sending(text) == [pc |-> "sending", text |-> text, called_at |-> now]

\* the candidates the callers hold
RaceTexts == {<<Letter>>, <<Letter, Letter>>, <<Letter, Space, Letter>>}

\* variant: the approval is recorded as a send in the same call, before the
\* downstream call is made
RaceEvaluate_marking(t) ==
    /\ tasks[t].pc = "idle"
    /\ \E n \in RaceTexts :
        IF should_send_update(n)
        THEN /\ mark_sent(n)
             /\ tasks' = [tasks EXCEPT ![t] = Sending(n)]
        ELSE /\ ShouldSendUpdate(n)
             /\ UNCHANGED tasks
    /\ UNCHANGED <<caught, entry, caller, history, construction, listener,
                   outbound>>

\* a caller passes its candidate to should_send_update and, on true, starts
\* its downstream call
RaceEvaluate(t) ==
    /\ tasks[t].pc = "idle"
    /\ \E n \in RaceTexts :
        /\ ShouldSendUpdate(n)
        /\ tasks' = IF should_send_update(n)
                    THEN [tasks EXCEPT ![t] = Sending(n)]
                    ELSE tasks
    /\ UNCHANGED <<caught, entry, caller, history, construction, listener,
                   outbound>>

\* the caller's downstream call is over: it calls mark_sent with the
\* candidate that was approved
RaceMark(t) ==
    /\ InFlight(t)
    /\ mark_sent(tasks[t].text)
    /\ tasks' = [tasks EXCEPT ![t] = IdleTask]
    /\ UNCHANGED <<caught, entry, caller, history, construction, listener,
                   outbound>>

\* the clock readings a session is followed over
RaceTick ==
    /\ now < Epoch + MaxRaceTicks
    /\ Tick
    /\ UNCHANGED <<caller, history, construction, listener, outbound, handlers>>

AnyRaceEvaluate == \E t \in Tasks : RaceEvaluate(t)
AnyRaceMark == \E t \in Tasks : RaceMark(t)

NextRace ==
    \/ RaceTick
    \/ AnyRaceEvaluate
    \/ AnyRaceMark

\* the throttlers followed have no trigger sections
InitRace ==
    /\ Init
    /\ trigger_sections = <<>>

SpecRace == InitRace /\ [][NextRace]_vars

(* ---------------- a caller whose candidates grow ---------------- *)
\* what an update adds to the candidate: a character of a word, or a word
Increments == {<<Letter>>, <<Space, Letter>>}

\* the candidates reached from a one-word text in at most k additions
RECURSIVE Grown(_)
Grown(k) ==
    IF k = 0 THEN {<<Letter>>}
    ELSE Grown(k - 1)
         \cup {n \o increment : n \in Grown(k - 1), increment \in Increments}

GrowingTexts == Grown(MaxGrowth)

\* s continued by at least one character
Extends(n, s) ==
    /\ Len(n) > Len(s)
    /\ SubSeq(n, 1, Len(s)) = s

\* the caller offers a candidate that continues the one it offered before;
\* on false it keeps the candidate and waits for the next one
GrowingOffer ==
    /\ pc = "idle"
    /\ \E n \in GrowingTexts :
        /\ Extends(n, narrative)
        /\ ShouldSendUpdate(n)
        /\ pc' = IF should_send_update(n) THEN "approved" ELSE "idle"
        /\ approved_at' = IF should_send_update(n) THEN now ELSE approved_at
    /\ previous' = narrative
    /\ UNCHANGED <<medical_narrative, summary, returned, history,
                   construction, outbound, handlers>>

NextGrowing ==
    \/ SerialTick
    \/ GrowingOffer
    \/ SerialMark

SpecGrowing == Init /\ [][NextGrowing]_vars

(* ---------------- texts of the conversation handler ---------------- *)
\* the handler forwards only narratives with len(narrative_text) > 50
GuardLength == 50

Pad == [i \in 1..GuardLength |-> Letter]

\* str.strip(): without the whitespace at both ends
RECURSIVE lstrip(_)
lstrip(s) ==
    IF s # <<>> /\ Head(s) \in Whitespace THEN lstrip(Tail(s)) ELSE s

RECURSIVE rstrip(_)
rstrip(s) ==
    IF s # <<>> /\ s[Len(s)] \in Whitespace
    THEN rstrip(SubSeq(s, 1, Len(s) - 1))
    ELSE s

strip(s) == lstrip(rstrip(s))

(* ---------------- the medical listener ---------------- *)
\* "Medical Summary:\n" and "Error: "
SummaryPrefix ==
    <<"M", "e", "d", "i", "c", "a", "l", " ",
      "S", "u", "m", "m", "a", "r", "y", ":", "\n">>
ErrorPrefix == <<"E", "r", "r", "o", "r", ":", " ">>

\* medical_narrative[17:]
PrefixLength == 17

\* How a call of process_input goes.  kind names the statement of the try
\* block that raised, if any:
\*   "text"     none: the summarizer answered with content and every write
\*              succeeded;
\*   "input"    the log write of the conversation chunk, before the
\*              summarizer is called;
\*   "raised"   the summarizer call, or reading its answer;
\*   "update"   the log write that precedes the assignment of the narrative
\*              (or the one of the else branch);
\*   "current"  the log write of the current narrative, after the assignment;
\*   "save"     the write of the session's JSON file.
\* message is the message of that exception.  logged tells whether the log
\* write of the except clause succeeds: if it does, process_input returns
\* "Error: " + message, if it raises, that exception leaves process_input.
Outcome(kind, content, message, logged) ==
    [kind |-> kind, content |-> content, message |-> message, logged |-> logged]

\* the contents a summarizer answers with: empty, blank, a short text,
\* narratives of 51 and 52 characters, the first of them also with
\* whitespace around it
SummarizerContents ==
    {<<>>, <<Space>>, <<Letter>>,
     Pad \o <<Letter>>,
     <<"\f">> \o Pad \o <<Letter, "\n">>,
     Pad \o <<Space, Letter>>}

\* the messages of exceptions: short and long
ExceptionMessages == {<<Letter>>, Pad}

\* the calls whose first log write raises: the summarizer is not called
InputOutcomes ==
    {Outcome("input", <<>>, Pad, logged) : logged \in BOOLEAN}

\* the calls that get to the summarizer
SummarizerOutcomes ==
    {Outcome("text", content, <<>>, TRUE) : content \in SummarizerContents}
    \cup {Outcome("raised", <<>>, message, logged) :
            message \in ExceptionMessages, logged \in BOOLEAN}
    \cup {Outcome(kind, content, Pad, logged) :
            kind \in {"update", "current", "save"},
            content \in {<<Letter>>, Pad \o <<Space, Letter>>},
            logged \in BOOLEAN}

\* the exception leaves process_input
Propagates(outcome) == outcome.kind # "text" /\ ~outcome.logged

\* str.startswith
startswith(s, prefix) ==
    /\ Len(s) >= Len(prefix)
    /\ SubSeq(s, 1, Len(prefix)) = prefix

\* the handler takes the prefix off what process_input returned
narrative_text(r) ==
    IF startswith(r, SummaryPrefix)
    THEN SubSeq(r, PrefixLength + 1, Len(r))
    ELSE r

\* if narrative_text and len(narrative_text) > 50
Forwardable(text) == text # <<>> /\ Len(text) > GuardLength

\* process_input(text) up to its end.  The content of the summarizer is
\* stripped and assigned to the narrative when it is non-empty and differs
\* from it, unless the call raised before the assignment; a failure after
\* the assignment leaves the narrative replaced.  Without a failure the
\* call returns "Medical Summary:\n" and the narrative; after one it returns
\* "Error: " and the message when the except clause can write its log line,
\* and otherwise returns nothing, the exception of that write leaving the
\* call.  `previous` keeps the narrative that was replaced.
process_input(outcome) ==
    /\ summary' = outcome
    /\ LET updated_narrative == strip(outcome.content)
           assigned == /\ outcome.kind \in {"text", "current", "save"}
                       /\ updated_narrative # <<>>
                       /\ updated_narrative # medical_narrative
       IN  /\ medical_narrative' =
                IF assigned THEN updated_narrative ELSE medical_narrative
           /\ previous' = IF assigned THEN medical_narrative ELSE previous
    /\ returned' =
            IF outcome.kind = "text" THEN SummaryPrefix \o medical_narrative'
            ELSE IF outcome.logged THEN ErrorPrefix \o outcome.message
            ELSE <<>>

\* reset(): the narrative is emptied for a new conversation (when its log
\* write raises, nothing is assigned)
Reset ==
    /\ medical_narrative # <<>>
    /\ medical_narrative' = <<>>
    /\ previous' = medical_narrative
    /\ caught' = "none"
    /\ UNCHANGED <<now, config, state, op, narrative, result, summary,
                   returned, tasks, entry, caller, history, construction,
                   outbound>>

(* ---------------- callers of process_input ---------------- *)
\* process_input is a coroutine that suspends in the summarizer call, so
\* that calls of it on one listener may overlap.
SummarizingTask == [pc |-> "summarizing", text |-> <<>>, called_at |-> None]

\* the task is suspended in the summarizer call of process_input
Summarizing(t) == tasks[t].pc = "summarizing"

\* a call of process_input ends: it returns a string, or the exception of
\* the log write of its except clause reaches the caller
ListenerEnd(t, outcome) ==
    /\ process_input(outcome)
    /\ tasks' = [tasks EXCEPT ![t] = IdleTask]
    /\ caught' = IF Propagates(outcome) THEN "OSError" ELSE "none"
    /\ UNCHANGED <<now, config, state, op, narrative, result, entry, caller,
                   history, construction, outbound>>

\* a call of process_input: it writes the chunk to the log, builds the
\* prompt and awaits the summarizer
ListenerBegin(t) ==
    /\ tasks[t].pc = "idle"
    /\ tasks' = [tasks EXCEPT ![t] = SummarizingTask]
    /\ caught' = "none"
    /\ UNCHANGED <<now, config, state, op, narrative, result, entry, caller,
                   history, construction, listener, outbound>>

\* a call whose first log write raises: it ends without calling the
\* summarizer
ListenerUnlogged(t, outcome) ==
    /\ tasks[t].pc = "idle"
    /\ outcome.kind = "input"
    /\ ListenerEnd(t, outcome)

\* the summarizer call of the task returned or raised
ListenerAnswer(t, outcome) ==
    /\ Summarizing(t)
    /\ outcome.kind # "input"
    /\ ListenerEnd(t, outcome)

AnyListenerBegin == \E t \in Tasks : ListenerBegin(t)
AnyListenerUnlogged ==
    \E t \in Tasks, outcome \in InputOutcomes : ListenerUnlogged(t, outcome)
AnyListenerAnswer ==
    \E t \in Tasks, outcome \in SummarizerOutcomes : ListenerAnswer(t, outcome)

NextListener ==
    \/ AnyListenerBegin
    \/ AnyListenerUnlogged
    \/ AnyListenerAnswer
    \/ Reset

\* a listener on its own, just constructed; no throttler is involved
InitListener ==
    /\ InitConfig
    /\ source.file = "missing"

SpecListener == InitListener /\ [][NextListener]_vars

(* ---------------- app.py: entrypoint and the conversation handler ---------------- *)
\* entrypoint names MedicalListenerAgent and DiagnosisThrottler, which
\* app.py neither imports nor defines: the first of them raises NameError,
\* before a listener or a throttler exists and before the handler of
\* conversation_item_added is registered
Entrypoint ==
    /\ entry = "start"
    /\ entry' = "NameError"
    /\ UNCHANGED <<now, config, state, op, narrative, result, tasks, caught,
                   caller, history, construction, listener, outbound>>

\* entrypoint has registered the handler: it never gets that far
Registered == entry = "registered"

\* The handler from the end of process_input to its own end; nothing
\* suspends it in between.  An exception that left process_input is logged
\* by the handler's except clause.  Otherwise the handler takes the prefix
\* off the returned string and, for a text of more than 50 characters, asks
\* the throttler; on true it goes on to the diagnosis call, whose name
\* send_narrative_to_diagnosis_api is bound nowhere: NameError is raised
\* and logged by the except clause, and the handler ends before mark_sent.
HandlerEnd(t, outcome) ==
    /\ process_input(outcome)
    /\ tasks' = [tasks EXCEPT ![t] = IdleTask]
    /\ IF Propagates(outcome)
       THEN /\ caught' = "OSError"
            /\ op' = "none"
            /\ narrative' = <<>>
            /\ result' = FALSE
            /\ UNCHANGED <<now, config, state>>
       ELSE LET text == narrative_text(returned')
            IN  IF Forwardable(text)
                THEN /\ ShouldSendUpdate(text)
                     /\ caught' = IF result' THEN "NameError" ELSE "none"
                ELSE /\ caught' = "none"
                     /\ op' = "none"
                     /\ narrative' = <<>>
                     /\ result' = FALSE
                     /\ UNCHANGED <<now, config, state>>
    /\ UNCHANGED <<entry, caller, history, construction, outbound>>

\* an event with text: its task calls process_input, which writes the chunk
\* to the log, builds the prompt and awaits the summarizer
HandlerBegin(t) ==
    /\ Registered
    /\ tasks[t].pc = "idle"
    /\ tasks' = [tasks EXCEPT ![t] = SummarizingTask]
    /\ caught' = "none"
    /\ op' = "none"
    /\ narrative' = <<>>
    /\ result' = FALSE
    /\ UNCHANGED <<now, config, state, entry, caller, history, construction,
                   listener, outbound>>

\* an event with text whose log write raises: process_input ends without
\* calling the summarizer, and the handler goes on with what it got
HandlerUnlogged(t, outcome) ==
    /\ Registered
    /\ tasks[t].pc = "idle"
    /\ outcome.kind = "input"
    /\ HandlerEnd(t, outcome)

\* the summarizer call of the task returned or raised
HandlerAnswer(t, outcome) ==
    /\ Registered
    /\ Summarizing(t)
    /\ outcome.kind # "input"
    /\ HandlerEnd(t, outcome)

AnyHandlerBegin == \E t \in Tasks : HandlerBegin(t)
AnyHandlerUnlogged ==
    \E t \in Tasks, outcome \in InputOutcomes : HandlerUnlogged(t, outcome)
AnyHandlerAnswer ==
    \E t \in Tasks, outcome \in SummarizerOutcomes : HandlerAnswer(t, outcome)

NextApp ==
    \/ Entrypoint
    \/ AnyHandlerBegin
    \/ AnyHandlerUnlogged
    \/ AnyHandlerAnswer

\* the job has started: nothing is constructed yet (src/ has no config.yaml)
InitApp ==
    /\ InitConfig
    /\ source.file = "missing"

SpecApp == InitApp /\ [][NextApp]_vars

(* ---------------- outbound calls: make_bulk_calls and make_call ---------------- *)
\* delay_between_calls, by default
DefaultDelay == 30

Phones == {"+1", "+2"}

\* the lists make_bulk_calls is given: entries with a phone_number
CallLists == UNION {[1..n -> Phones] : n \in 0..MaxCalls}

\* an API request of make_call, the return of make_call, or a sleep
Event(step, ok) ==
    [step |-> step, call |-> idx, phone |-> call_list[idx], ok |-> ok,
     seconds |-> 0]

\* this script builds no throttler and runs no handler
InitOutbound ==
    /\ call_list \in CallLists
    /\ idx = 0
    /\ successful_calls = 0
    /\ failed_calls = 0
    /\ at = "start"
    /\ log = <<>>
    /\ now = Epoch
    /\ minimum_interval = None
    /\ maximum_interval = None
    /\ word_count_threshold = None
    /\ trigger_sections = <<>>
    /\ last_sent_time = 0
    /\ last_sent_narrative = <<>>
    /\ last_sent_word_count = 0
    /\ op = "none"
    /\ narrative = <<>>
    /\ result = FALSE
    /\ pc = "idle"
    /\ approved_at = None
    /\ before = None
    /\ source = [file |-> "missing", document |-> "none", section |-> "none",
                 settings |-> NoSettings]
    /\ constructed = "pending"
    /\ tasks = NoTasks
    /\ caught = "none"
    /\ entry = "start"
    /\ medical_narrative = <<>>
    /\ previous = <<>>
    /\ summary = NoSummary
    /\ returned = <<>>

\* everything but the outbound calls
rest == <<now, config, state, op, narrative, result, caller, history,
          construction, handlers, listener>>

\* for idx, call_info in enumerate(call_list, 1): the next entry is taken
\* and make_call is entered
NextEntry ==
    /\ at \in {"start", "loop"}
    /\ idx < Len(call_list)
    /\ idx' = idx + 1
    /\ at' = "room"
    /\ UNCHANGED <<call_list, successful_calls, failed_calls, log, rest>>

\* await room.create_room(...): it returns, or it raises and make_call
\* goes to its except clause
CreateRoom ==
    /\ at = "room"
    /\ \E ok \in BOOLEAN :
        /\ log' = Append(log, Event("room", ok))
        /\ at' = IF ok THEN "dispatch" ELSE "failed"
    /\ UNCHANGED <<call_list, idx, successful_calls, failed_calls, rest>>

\* variant: a failed dispatch is passed over and the SIP participant is
\* created all the same
CreateDispatch_continues ==
    /\ at = "dispatch"
    /\ \E ok \in BOOLEAN :
        /\ log' = Append(log, Event("dispatch", ok))
        /\ at' = "sip"
    /\ UNCHANGED <<call_list, idx, successful_calls, failed_calls, rest>>

\* await agent_dispatch.create_dispatch(...)
CreateDispatch ==
    /\ at = "dispatch"
    /\ \E ok \in BOOLEAN :
        /\ log' = Append(log, Event("dispatch", ok))
        /\ at' = IF ok THEN "sip" ELSE "failed"
    /\ UNCHANGED <<call_list, idx, successful_calls, failed_calls, rest>>

\* await sip.create_sip_participant(...)
CreateSipParticipant ==
    /\ at = "sip"
    /\ \E ok \in BOOLEAN :
        /\ log' = Append(log, Event("sip", ok))
        /\ at' = IF ok THEN "succeeded" ELSE "failed"
    /\ UNCHANGED <<call_list, idx, successful_calls, failed_calls, rest>>

\* variant: the loop ends at the first call that failed
CallReturns_stops ==
    /\ at \in {"succeeded", "failed"}
    /\ log' = Append(log, Event("return", at = "succeeded"))
    /\ successful_calls' = successful_calls + (IF at = "succeeded" THEN 1 ELSE 0)
    /\ failed_calls' = failed_calls + (IF at = "failed" THEN 1 ELSE 0)
    /\ at' = IF at = "failed" THEN "done"
             ELSE IF idx < Len(call_list) THEN "sleeping" ELSE "loop"
    /\ UNCHANGED <<call_list, idx, rest>>

\* make_call returns True, or False from its except clause; the loop counts
\* the call and, unless it was the last entry, goes to sleep
CallReturns ==
    /\ at \in {"succeeded", "failed"}
    /\ log' = Append(log, Event("return", at = "succeeded"))
    /\ successful_calls' = successful_calls + (IF at = "succeeded" THEN 1 ELSE 0)
    /\ failed_calls' = failed_calls + (IF at = "failed" THEN 1 ELSE 0)
    /\ at' = IF idx < Len(call_list) THEN "sleeping" ELSE "loop"
    /\ UNCHANGED <<call_list, idx, rest>>

\* await asyncio.sleep(delay_between_calls)
Sleep ==
    /\ at = "sleeping"
    /\ log' = Append(log, [Event("sleep", TRUE) EXCEPT !.seconds = DefaultDelay])
    /\ at' = "loop"
    /\ UNCHANGED <<call_list, idx, successful_calls, failed_calls, rest>>

\* the list is exhausted: the summary is logged and make_bulk_calls returns
BulkReturns ==
    /\ at \in {"start", "loop"}
    /\ idx = Len(call_list)
    /\ at' = "done"
    /\ UNCHANGED <<call_list, idx, successful_calls, failed_calls, log, rest>>

NextOutbound ==
    \/ NextEntry
    \/ CreateRoom
    \/ CreateDispatch
    \/ CreateSipParticipant
    \/ CallReturns
    \/ Sleep
    \/ BulkReturns

SpecOutbound == InitOutbound /\ [][NextOutbound]_vars

(* ---------------- the rules, stated independently of the code ---------------- *)
Range(f) == {f[k] : k \in DOMAIN f}

\* whitespace-delimited tokens: the positions where a token starts
Tokens(s) ==
    Cardinality({i \in 1..Len(s) :
        /\ s[i] \notin Whitespace
        /\ (i = 1 \/ s[i - 1] \in Whitespace)})

Elapsed == now - last_sent_time
WordsAdded == Tokens(narrative) - last_sent_word_count
Differs == narrative # last_sent_narrative
MarkerNew == \E m \in Range(trigger_sections) :
                Contains(m, narrative) /\ ~Contains(m, last_sent_narrative)
MarkerInBoth == \E m \in Range(trigger_sections) :
                Contains(m, narrative) /\ Contains(m, last_sent_narrative)
Evaluated == op = "should_send_update"

\* C1 (floor invariant): a call made less than minimum_interval after the
\* last send returns false, whatever the candidate, the words it adds, the
\* markers it contains and whether maximum_interval has been reached.
FloorInvariant ==
    (Evaluated /\ Elapsed < minimum_interval) => result = FALSE

\* a call inside the floor window whose candidate differs, adds enough
\* words, shows a new marker and has reached the ceiling
FloorWitness ==
    /\ Evaluated /\ Elapsed < minimum_interval /\ result = FALSE
    /\ Differs /\ WordsAdded >= word_count_threshold /\ MarkerNew
    /\ Elapsed >= maximum_interval

\* C2 as stated (ceiling invariant): once elapsed has reached
\* maximum_interval every candidate that differs from the last sent text is
\* approved.
CeilingInvariantAsStated ==
    (Evaluated /\ Elapsed >= maximum_interval /\ Differs) => result = TRUE

\* C2 amended (ceiling invariant): once elapsed has reached maximum_interval
\* and also minimum_interval, every candidate that differs from the last
\* sent text is approved, whatever words were added or removed and whatever
\* markers it contains.
CeilingInvariant ==
    (Evaluated /\ Elapsed >= maximum_interval /\ Elapsed >= minimum_interval
        /\ Differs) => result = TRUE

\* approved by the ceiling alone: after a send, words removed, no new marker
CeilingWitness ==
    /\ Evaluated /\ result = TRUE /\ last_sent_time # 0
    /\ Elapsed >= maximum_interval /\ Elapsed >= minimum_interval
    /\ Differs /\ WordsAdded < 0 /\ ~MarkerNew

\* C3 (no-op invariant): offering exactly the text last marked sent is
\* rejected at every elapsed time, also once maximum_interval is reached.
NoOpInvariant ==
    (Evaluated /\ narrative = last_sent_narrative) => result = FALSE

\* the sent text offered again after the ceiling has been reached
NoOpWitness ==
    /\ Evaluated /\ narrative = last_sent_narrative /\ result = FALSE
    /\ last_sent_time # 0 /\ narrative # <<>>
    /\ Elapsed >= maximum_interval /\ Elapsed >= minimum_interval

\* C4 (word-count rule): past the floor, a differing candidate that adds at
\* least word_count_threshold words is approved, also before the ceiling and
\* without a new marker.
WordCountRule ==
    (Evaluated /\ Elapsed >= minimum_interval /\ Differs
        /\ WordsAdded >= word_count_threshold) => result = TRUE

\* approved by the word count alone, with exactly the threshold added
WordCountWitness ==
    /\ Evaluated /\ result = TRUE /\ last_sent_time # 0
    /\ Elapsed >= minimum_interval /\ Elapsed < maximum_interval
    /\ Differs /\ WordsAdded = word_count_threshold /\ ~MarkerNew

\* C5 (trigger-section rule): past the floor, a differing candidate that
\* contains a configured marker the last sent text does not contain is
\* approved, also before the ceiling and with fewer than
\* word_count_threshold words added.
TriggerSectionRule ==
    (Evaluated /\ Elapsed >= minimum_interval /\ Differs /\ MarkerNew)
        => result = TRUE

\* approved by a new marker alone, the marker not being the first configured
TriggerSectionWitness ==
    /\ Evaluated /\ result = TRUE /\ last_sent_time # 0
    /\ Elapsed >= minimum_interval /\ Elapsed < maximum_interval
    /\ Differs /\ WordsAdded < word_count_threshold
    /\ Len(trigger_sections) > 1
    /\ Contains(trigger_sections[1], narrative)
        => Contains(trigger_sections[1], last_sent_narrative)
    /\ MarkerNew

\* C6 (default rejection): between the floor and the ceiling, a differing
\* candidate that adds fewer than word_count_threshold words and shows no
\* marker that the last sent text lacks is rejected; a marker present in
\* both texts forces nothing.
DefaultRejection ==
    (Evaluated /\ Elapsed >= minimum_interval /\ Elapsed < maximum_interval
        /\ Differs /\ WordsAdded < word_count_threshold /\ ~MarkerNew)
        => result = FALSE

\* rejected although a configured marker occurs in both texts
DefaultRejectionWitness ==
    /\ Evaluated /\ result = FALSE
    /\ Elapsed >= minimum_interval /\ Elapsed < maximum_interval
    /\ Differs /\ WordsAdded < word_count_threshold /\ ~MarkerNew
    /\ MarkerInBoth

\* C7 (reference rule list): the call returns true exactly when the floor
\* has passed, the candidate differs from the last sent text, and the
\* ceiling is reached or enough words were added or a marker is new; this
\* is the value the first matching rule of floor, identical-content,
\* ceiling, word-count, trigger-section gives.
FirstMatchingRule ==
    CASE Elapsed < minimum_interval -> "floor"
      [] OTHER ->
    CASE ~Differs -> "identical"
      [] OTHER ->
    CASE Elapsed >= maximum_interval -> "ceiling"
      [] OTHER ->
    CASE WordsAdded >= word_count_threshold -> "word_count"
      [] OTHER ->
    CASE MarkerNew -> "trigger_section"
      [] OTHER -> "default"

DecisionMatchesRules ==
    Evaluated =>
        /\ result = (/\ Elapsed >= minimum_interval
                     /\ Differs
                     /\ \/ Elapsed >= maximum_interval
                        \/ WordsAdded >= word_count_threshold
                        \/ MarkerNew)
        /\ result = (FirstMatchingRule \in {"ceiling", "word_count", "trigger_section"})

\* several rules apply at once and the earliest, the floor, decides
DecisionWitness ==
    /\ Evaluated /\ result = FALSE /\ FirstMatchingRule = "floor"
    /\ ~Differs /\ Elapsed >= maximum_interval /\ last_sent_time # 0

\* C8 (rate floor over a run): when mark_sent(c) is called exactly after
\* should_send_update(c) returned true, the clock reading of an approval is
\* at least minimum_interval later than the reading of the approval before.
RateFloorOverRun ==
    [][(op' = "should_send_update" /\ result' = TRUE /\ approved_at # None)
        => now' - approved_at >= minimum_interval]_vars

\* a second approval, exactly minimum_interval after the send that followed
\* the first one, the send itself completing later than its approval
RateFloorWitness ==
    /\ pc = "approved" /\ approved_at = now
    /\ last_sent_time # 0 /\ last_sent_narrative # <<>>
    /\ minimum_interval > 0
    /\ now - last_sent_time = minimum_interval
    /\ last_sent_time > Epoch

MaxOf(x, y) == IF x >= y THEN x ELSE y

\* the clock of the model can still reach the floor and the ceiling
WithinHorizon == last_sent_time + MaxOf(minimum_interval, maximum_interval) <= MaxTime

Approved == Evaluated /\ result = TRUE

EventuallyApproved == (pc = "idle" /\ WithinHorizon) ~> Approved

\* C9 as stated (bounded staleness): a differing narrative that keeps being
\* offered is eventually approved, and once elapsed exceeds maximum_interval
\* the next differing narrative offered is approved.
BoundedStalenessAsStated ==
    /\ EventuallyApproved
    /\ []((Evaluated /\ Elapsed > maximum_interval /\ Differs) => result = TRUE)

\* C9 amended (bounded staleness): a differing narrative that keeps being
\* offered while the clock advances is eventually approved (within the
\* clock range of the model), and once elapsed exceeds maximum_interval and
\* has reached minimum_interval the next differing narrative offered is
\* approved.
BoundedStaleness ==
    /\ EventuallyApproved
    /\ []((Evaluated /\ Elapsed > maximum_interval
            /\ Elapsed >= minimum_interval /\ Differs) => result = TRUE)

\* after a send, a narrative that was rejected before is approved because
\* the ceiling has been exceeded
BoundedStalenessWitness ==
    /\ pc = "approved" /\ last_sent_time # 0
    /\ Elapsed > maximum_interval /\ Elapsed >= minimum_interval
    /\ maximum_interval > minimum_interval
    /\ WordsAdded < word_count_threshold /\ ~MarkerNew

\* C10 (pure predicate): a should_send_update call leaves last_sent_time,
\* last_sent_narrative, last_sent_word_count and the four configuration
\* values as they were, whatever it returns; the last sent narrative and its
\* word count change in mark_sent only.
PurePredicate ==
    [][/\ op' = "should_send_update" => UNCHANGED <<config, state>>
       /\ (last_sent_narrative' # last_sent_narrative
            \/ last_sent_word_count' # last_sent_word_count)
          => op' = "mark_sent"]_vars

\* an approving call after a send: the state still describes the older text
PureWitness ==
    /\ Evaluated /\ result = TRUE /\ last_sent_time # 0
    /\ Differs /\ Tokens(narrative) # last_sent_word_count
    /\ Tokens(last_sent_narrative) = last_sent_word_count

\* C11 (determinism): the answer a call gave is the answer the same candidate
\* gets when asked again, and steps that are neither mark_sent nor a later
\* clock reading, should_send_update calls among them, leave the answer for
\* every candidate as it was.
DeterministicDecision ==
    /\ [](Evaluated => result = should_send_update(narrative))
    /\ [][(op' # "mark_sent" /\ now' = now)
            => \A c \in Texts : should_send_update(c)' = should_send_update(c)]_vars

\* an approval given by the word count alone, before the ceiling
DeterminismWitness ==
    /\ Evaluated /\ result = TRUE /\ last_sent_time # 0
    /\ Elapsed >= minimum_interval /\ Elapsed < maximum_interval
    /\ WordsAdded >= word_count_threshold /\ MarkerInBoth

Marked == op = "mark_sent"

\* C12 (mark_sent): mark_sent(x) can be called in every state with every
\* text, and after it last_sent_time is the clock reading, last_sent_narrative
\* is x and last_sent_word_count is the number of words of x.
MarkSentEffect ==
    /\ \A x \in Texts : ENABLED mark_sent(x)
    /\ Marked =>
        /\ last_sent_time = now
        /\ last_sent_narrative = narrative
        /\ last_sent_word_count = Tokens(narrative)

\* a text marked sent inside the floor of an earlier send of another text,
\* no should_send_update call having approved it
MarkSentWitness ==
    /\ Marked /\ before[1] # 0
    /\ now - before[1] < minimum_interval
    /\ narrative # before[2] /\ Tokens(narrative) # before[3]

\* C13 (stored word count): in every reachable state last_sent_word_count
\* is the number of whitespace-delimited tokens of last_sent_narrative, the
\* count should_send_update takes of a candidate; right after mark_sent(x)
\* the candidate x adds 0 words.
StoredWordCount ==
    /\ last_sent_word_count = Tokens(last_sent_narrative)
    /\ last_sent_word_count = word_count(last_sent_narrative)
    /\ Marked => words_added(narrative) = 0

\* a sent text with leading and trailing whitespace around its one word
StoredWordCountWitness ==
    /\ Marked /\ Len(last_sent_narrative) = 3
    /\ last_sent_narrative[1] = " " /\ last_sent_narrative[3] = " "
    /\ last_sent_word_count = 1

\* C14 (monotonic last_sent_time): with a clock that never goes back no
\* step makes last_sent_time smaller.
LastSentTimeMonotonic == [][last_sent_time' >= last_sent_time]_vars

\* a second send, recorded later than the first
LastSentTimeWitness ==
    /\ Marked /\ before[1] # 0 /\ last_sent_time > before[1]

\* C15 (idempotence of mark_sent): mark_sent(x) in a state that mark_sent(x)
\* produced leaves last_sent_narrative and last_sent_word_count as they
\* were; only last_sent_time may differ, and it does not decrease.
MarkSentIdempotent ==
    (Marked /\ before[1] # 0 /\ before[2] = narrative) =>
        /\ last_sent_narrative = before[2]
        /\ last_sent_word_count = before[3]
        /\ last_sent_time >= before[1]

\* the same two-word text marked sent twice, the second time later
MarkSentIdempotentWitness ==
    /\ Marked /\ before[1] # 0 /\ before[2] = narrative
    /\ last_sent_time > before[1] /\ last_sent_word_count = 2

\* C16 (first send): in the never-sent state every non-empty candidate is
\* approved, however few words it has and whatever markers it contains.
NeverSentState ==
    last_sent_time = 0 /\ last_sent_narrative = <<>> /\ last_sent_word_count = 0

FirstSend ==
    (Evaluated /\ NeverSentState /\ narrative # <<>>) => result = TRUE

\* the first candidate is a single blank: no word, no marker
FirstSendWitness ==
    /\ Evaluated /\ NeverSentState /\ narrative = <<" ">> /\ result = TRUE
    /\ minimum_interval = MaxInterval /\ maximum_interval = MaxInterval

\* C17 (lifecycle): the throttler starts never sent; only mark_sent ends
\* that; after any mark_sent, of the empty text too, last_sent_time is not 0
\* and never becomes 0 again; both methods can be called in every state.
NeverSent == last_sent_time = 0

Lifecycle ==
    /\ NeverSent
    /\ [][(NeverSent /\ ~NeverSent') => op' = "mark_sent"]_vars
    /\ [][op' = "mark_sent" => ~NeverSent']_vars
    /\ [][~NeverSent => ~NeverSent']_vars
    /\ [](\A n \in Texts : ENABLED ShouldSendUpdate(n) /\ ENABLED mark_sent(n))

\* the empty text marked sent, a second time
LifecycleWitness ==
    /\ Marked /\ narrative = <<>> /\ last_sent_narrative = <<>>
    /\ last_sent_word_count = 0 /\ ~NeverSent
    /\ before[1] # 0 /\ before[2] = <<>>

\* C19 as stated (empty candidate): once a send has been recorded,
\* should_send_update of the empty text returns false.
EmptyCandidateAsStated ==
    (Evaluated /\ narrative = <<>> /\ last_sent_time # 0) => result = FALSE

\* C19 amended (empty candidate): the empty text is rejected in every state
\* whose last sent text is empty; after a send of a non-empty text it is
\* approved as soon as elapsed has reached minimum_interval and
\* maximum_interval.
EmptyCandidate ==
    /\ (Evaluated /\ narrative = <<>> /\ last_sent_narrative = <<>>)
            => result = FALSE
    /\ (Evaluated /\ narrative = <<>> /\ last_sent_narrative # <<>>
            /\ Elapsed >= minimum_interval /\ Elapsed >= maximum_interval)
            => result = TRUE

\* the empty text offered after the empty text was marked sent, ceiling
\* reached
EmptyCandidateWitness ==
    /\ Evaluated /\ narrative = <<>> /\ last_sent_narrative = <<>>
    /\ last_sent_time # 0 /\ result = FALSE
    /\ Elapsed >= minimum_interval /\ Elapsed >= maximum_interval

\* the settings a source supplies: those of a diagnosis_throttling mapping in
\* a readable, parsable mapping document, none otherwise
Supplied ==
    IF /\ source.file = "ok"
       /\ source.document = "mapping"
       /\ source.section = "mapping"
    THEN source.settings
    ELSE NoSettings

ValueOr(setting, default) ==
    IF setting = {} THEN default ELSE CHOOSE v \in setting : TRUE

\* C18: for every shape of configuration source the constructor completes
\* without raising and yields a throttler whose four values are those the
\* source supplies, with 15, 60, 20 and [] for whatever is missing.
ConfigFallbackNeverFails ==
    constructed # "pending" =>
        /\ constructed = "ok"
        /\ minimum_interval = ValueOr(Supplied.minimum_interval_seconds, 15)
        /\ maximum_interval = ValueOr(Supplied.maximum_interval_seconds, 60)
        /\ word_count_threshold = ValueOr(Supplied.word_count_threshold, 20)
        /\ trigger_sections = ValueOr(Supplied.trigger_sections, <<>>)

\* the constructor raised on a document whose diagnosis_throttling is null
ConfigFailureWitness ==
    /\ constructed = "raised"
    /\ source.file = "ok"
    /\ source.document = "mapping"
    /\ source.section = "null"

\* C20: two callers share the throttler unserialized.  An approval
\* reserves nothing: the step in which a caller is approved and starts its
\* downstream call leaves the throttler state as it was, so as long as the
\* clock has not moved and no mark_sent has run at this reading the approved
\* text would be approved again; a second caller therefore passes before
\* the first one marks.
UnserializedRace ==
    /\ [][\A t \in Tasks : (~InFlight(t) /\ InFlight(t)') => state' = state]_vars
    /\ [](\A t \in Tasks :
            (InFlight(t) /\ tasks[t].called_at = now /\ last_sent_time < now)
                => should_send_update(tasks[t].text))

\* both callers were approved, with different candidates, after an earlier
\* send and before either has marked; the two downstream calls are less
\* than minimum_interval apart
RaceWitness ==
    /\ \A t \in Tasks : InFlight(t) /\ last_sent_time < tasks[t].called_at
    /\ last_sent_time > 0
    /\ tasks[1].text # tasks[2].text
    /\ tasks[1].called_at - tasks[2].called_at < minimum_interval
    /\ tasks[2].called_at - tasks[1].called_at < minimum_interval

\* the source is a readable mapping whose diagnosis_throttling is a mapping
SectionGiven ==
    /\ source.file = "ok"
    /\ source.document = "mapping"
    /\ source.section = "mapping"

\* C24: when the diagnosis_throttling section supplies any subset of the four
\* keys, each supplied key takes its configured value and each absent key
\* its own default (15, 60, 20, no sections), whatever the other keys are.
PerKeyDefaults ==
    (SectionGiven /\ constructed # "pending") =>
        /\ constructed = "ok"
        /\ \A v \in source.settings.minimum_interval_seconds :
                minimum_interval = v
        /\ source.settings.minimum_interval_seconds = {}
                => minimum_interval = 15
        /\ \A v \in source.settings.maximum_interval_seconds :
                maximum_interval = v
        /\ source.settings.maximum_interval_seconds = {}
                => maximum_interval = 60
        /\ \A v \in source.settings.word_count_threshold :
                word_count_threshold = v
        /\ source.settings.word_count_threshold = {}
                => word_count_threshold = 20
        /\ \A v \in source.settings.trigger_sections :
                trigger_sections = v
        /\ source.settings.trigger_sections = {}
                => trigger_sections = <<>>

\* a section giving maximum_interval_seconds and trigger_sections only
PerKeyDefaultsWitness ==
    /\ SectionGiven
    /\ constructed = "ok"
    /\ source.settings.minimum_interval_seconds = {}
    /\ source.settings.word_count_threshold = {}
    /\ source.settings.maximum_interval_seconds # {}
    /\ source.settings.trigger_sections # {}
    /\ minimum_interval = 15
    /\ maximum_interval < minimum_interval
    /\ word_count_threshold = 20
    /\ trigger_sections # <<>>

\* C26: in the never-sent state should_send_update("") returns false at
\* every clock reading, so before the first mark_sent only a non-empty
\* candidate is ever approved.
NeverSentEmptyRejected ==
    NeverSentState =>
        /\ ~should_send_update(<<>>)
        /\ (Evaluated /\ narrative = <<>>) => result = FALSE
        /\ (Evaluated /\ result = TRUE) => narrative # <<>>

\* the empty candidate offered, and rejected, at a later clock reading with
\* nothing sent yet
NeverSentEmptyWitness ==
    /\ NeverSentState
    /\ Evaluated
    /\ narrative = <<>>
    /\ result = FALSE
    /\ now > Epoch
    /\ Elapsed >= maximum_interval
    /\ Elapsed >= minimum_interval

InWindow == Elapsed >= minimum_interval /\ Elapsed < maximum_interval

\* C25: the baseline of the word count is the last sent text, not the last
\* evaluated one.  Over growing candidates, with elapsed between
\* minimum_interval and maximum_interval and no new marker, a candidate is
\* approved exactly when it has at least word_count_threshold words more
\* than the last sent text, and no evaluation moves the baseline.
BaselineIsLastSent ==
    /\ []((Evaluated /\ InWindow /\ Differs /\ ~MarkerNew) =>
            (result = (Tokens(narrative) - Tokens(last_sent_narrative)
                        >= word_count_threshold)))
    /\ [][op' = "should_send_update"
            => last_sent_word_count' = last_sent_word_count]_vars

\* a candidate approved for the words it adds to the last sent text, after a
\* rejected one to which it adds fewer than the threshold
BaselineWitness ==
    /\ Evaluated /\ result = TRUE
    /\ InWindow /\ ~MarkerNew
    /\ last_sent_time # 0
    /\ previous # <<>>
    /\ previous # last_sent_narrative
    /\ Tokens(previous) - Tokens(last_sent_narrative) < word_count_threshold
    /\ Tokens(narrative) - Tokens(previous) < word_count_threshold
    /\ Tokens(narrative) - Tokens(last_sent_narrative) >= word_count_threshold

Raised == summary.kind = "raised"

\* a call of process_input ended in this step (a call that ends as the one
\* before it did, from the state that one left, changes nothing)
Processed == summary' # summary \/ returned' # returned

\* C28: process_input replaces medical_narrative only by a non-empty text of
\* the summarizer that differs from it; on an empty or identical text and
\* on an exception of the summarizer the narrative keeps its value, and
\* that exception yields the return value "Error: ..." and does not leave
\* process_input.  (The narrative is emptied by reset() alone.)
NarrativeReplacement ==
    /\ [][(/\ medical_narrative' # medical_narrative
           /\ (Processed \/ medical_narrative' # <<>>)) =>
            /\ summary'.kind \in {"text", "current", "save"}
            /\ strip(summary'.content) # <<>>
            /\ strip(summary'.content) # medical_narrative
            /\ medical_narrative' = strip(summary'.content)
            /\ previous' = medical_narrative]_vars
    /\ [][Processed =>
            /\ (summary'.kind = "text" /\ strip(summary'.content) # <<>>)
                    => medical_narrative' = strip(summary'.content)
            /\ (summary'.kind = "text" /\ strip(summary'.content) = <<>>)
                    => medical_narrative' = medical_narrative
            /\ summary'.kind = "text"
                    => returned' = SummaryPrefix \o medical_narrative'
            /\ summary'.kind = "raised" =>
                    /\ medical_narrative' = medical_narrative
                    /\ returned' = ErrorPrefix \o summary'.message
                    /\ caught' # "OSError"]_vars

\* the summarizer raised while a narrative was held and the log write of
\* the except clause raised as well: the narrative is kept, nothing is
\* returned and the exception reaches the handler
ErrorPropagatedWitness ==
    /\ Raised
    /\ ~summary.logged
    /\ medical_narrative # <<>>
    /\ returned = <<>>
    /\ caught = "OSError"

IsReturn(e) == e.step = "return"
IsSleep(e) == e.step = "sleep"
IsSuccess(e) == e.step = "return" /\ e.ok
IsFailure(e) == e.step = "return" /\ ~e.ok

\* the calls make_bulk_calls has made so far, in the order they returned
Returns == SelectSeq(log, IsReturn)

\* C29: make_bulk_calls attempts every entry of call_list exactly once and
\* in list order, whether or not earlier attempts failed: the k-th call
\* that returns is the call to entry k, a call that is not the last is
\* followed by one sleep of delay_between_calls and the last one by none,
\* the two counters count the returned calls, and when make_bulk_calls
\* returns every entry was called and successful_calls + failed_calls
\* equals len(call_list).
BulkCallsCoverList ==
    /\ Len(Returns) \in {idx - 1, idx} \cap Nat
    /\ \A k \in 1..Len(Returns) :
            Returns[k].call = k /\ Returns[k].phone = call_list[k]
    /\ successful_calls = Len(SelectSeq(log, IsSuccess))
    /\ failed_calls = Len(SelectSeq(log, IsFailure))
    /\ \A j \in 1..Len(log) :
        /\ IsSleep(log[j]) =>
                /\ j > 1
                /\ IsReturn(log[j - 1])
                /\ log[j - 1].call < Len(call_list)
                /\ log[j].seconds = DefaultDelay
        /\ (IsReturn(log[j]) /\ log[j].call < Len(call_list)) =>
                IF j < Len(log) THEN IsSleep(log[j + 1]) ELSE at = "sleeping"
        /\ (IsReturn(log[j]) /\ log[j].call = Len(call_list)) => j = Len(log)
    /\ at = "done" =>
        /\ Len(Returns) = Len(call_list)
        /\ successful_calls + failed_calls = Len(call_list)
        /\ call_list # <<>> =>
                Len(SelectSeq(log, IsSleep)) = Len(call_list) - 1

\* make_bulk_calls has returned from a list of three entries whose first
\* call failed and whose last call succeeded
BulkAfterFailureWitness ==
    /\ at = "done"
    /\ Len(call_list) = MaxCalls
    /\ ~Returns[1].ok
    /\ Returns[Len(Returns)].ok
    /\ failed_calls >= 1
    /\ successful_calls >= 1
    /\ Len(SelectSeq(log, IsSleep)) = MaxCalls - 1

StepOrder == <<"room", "dispatch", "sip">>

\* the API requests of the call to entry i, in the order they were made
StepsOf(i) ==
    LET IsStep(e) == e.call = i /\ e.step \in {"room", "dispatch", "sip"}
    IN  SelectSeq(log, IsStep)

\* the return values of the call to entry i
ReturnsOf(i) ==
    LET IsReturnOf(e) == e.call = i /\ e.step = "return"
    IN  SelectSeq(log, IsReturnOf)

\* C30: make_call creates the room, dispatches the agent and creates the
\* SIP participant in that order; a step is attempted only if every step
\* before it succeeded; make_call returns True exactly when all three
\* succeeded and False, with the later steps never attempted, when one
\* of them raised.
MakeCallStepsInOrder ==
    \A i \in 1..idx :
        LET st == StepsOf(i)
            rt == ReturnsOf(i)
        IN  /\ Len(st) <= 3
            /\ \A k \in 1..Len(st) : st[k].step = StepOrder[k]
            /\ \A k \in 1..(Len(st) - 1) : st[k].ok
            /\ Len(rt) <= 1
            /\ Len(rt) = 1 =>
                /\ Len(st) >= 1
                /\ rt[1].ok = (Len(st) = 3 /\ st[3].ok)
                /\ ~rt[1].ok => ~st[Len(st)].ok
            /\ (at \in {"failed", "succeeded"} /\ i = idx) =>
                /\ Len(st) >= 1
                /\ (at = "succeeded") = (Len(st) = 3 /\ st[3].ok)
                /\ (at = "failed") = ~st[Len(st)].ok

\* the agent dispatch of a call raised after the room was created: no SIP
\* participant was created and the call returned False
DispatchRaisedWitness ==
    \E i \in 1..idx :
        /\ Len(StepsOf(i)) = 2
        /\ StepsOf(i)[1].ok
        /\ ~StepsOf(i)[2].ok
        /\ Len(ReturnsOf(i)) = 1
        /\ ~ReturnsOf(i)[1].ok

====
